---- MODULE Spec2Model ----
(***************************************************************************)
(* The Angle value type of src/lib.rs and a client that drives its API.    *)
(*                                                                         *)
(* Numbers.  An f64 is modelled as an exact fixed-point number.  A radian  *)
(* measure is an integer count of ticks with PI ticks to the half turn; a  *)
(* degree measure is an integer count of thousandths of a degree, so that  *)
(* 180.0 degrees is 180000 and the tolerance 0.001 degrees is 1.  All      *)
(* arithmetic on these numbers is exact: the rounding of f64 is not        *)
(* modelled, the order of the comparisons and the sign of the remainder    *)
(* are.                                                                    *)
(***************************************************************************)
EXTENDS Integers, Sequences, FiniteSets, TLC

VARIABLES
    reg,      \* the Angles the client holds: reg.a, reg.b (operands), reg.d (tolerance)
    src,      \* per register, the measure it was constructed from (client-side record)
    ops,      \* the + / - applied to reg.a since its construction, operand reg.b
    chain,    \* TRUE while reg.a = src.a (+|-) reg.b ... (+|-) reg.b with the current reg.b
    n,        \* number of operations applied to reg.a since its construction
    last,     \* the last operation: its name, target and the raw value it normalized
    called,   \* TRUE when `within` is the result of is_within on the current registers
    within    \* result of the last reg.a.is_within(&reg.b, reg.d)

vars == <<reg, src, ops, chain, n, last, called, within>>

-----------------------------------------------------------------------------
(* Bounds of the exploration *)

\* whole turns added to or taken from a degree measure handed to degrees()
MaxTurns == 1

\* longest chain of +, - and abs applied to reg.a
MaxOps == 3

-----------------------------------------------------------------------------
(* Numbers *)

\* core::f64::consts::PI, in ticks
PI == 360000

\* core::f64::consts::FRAC_PI_2
FRAC_PI_2 == PI \div 2

RADIANS_90_DEGREES == FRAC_PI_2

\* f64::to_radians multiplies by the constant PI / 180.0 (180.0 is 180000 here)
RADS_PER_DEG == PI \div 180000

\* faulty variant: the degree measure is taken as radians
to_radians_skipped(v) == v

to_radians(v) == v * RADS_PER_DEG

\* the f64 remainder x % m: truncated, the result has the sign of x, |result| < m
Fmod(x, m) == IF x >= 0 THEN x % m ELSE -((-x) % m)

fabs(x) == IF x < 0 THEN -x ELSE x

-----------------------------------------------------------------------------
(* impl Angle *)

Angle(v) == [value |-> v]

\* faulty variant: the remainder is forgotten, the value is wrapped at most once
normalize_once(self) ==
    LET value == self.value
    IN  Angle(IF value > PI THEN value - 2 * PI
              ELSE IF value < -PI THEN value + 2 * PI
              ELSE value)

\* faulty variant: the comparisons include the bounds
normalize_inclusive(self) ==
    LET value == Fmod(self.value, 2 * PI)
    IN  Angle(IF value >= PI THEN value - 2 * PI
              ELSE IF value <= -PI THEN value + 2 * PI
              ELSE value)

\* faulty variant: wraps by half a turn instead of a full turn
normalize_half(self) ==
    LET value == Fmod(self.value, 2 * PI)
    IN  Angle(IF value > PI THEN value - PI
              ELSE IF value < -PI THEN value + PI
              ELSE value)

normalize(self) ==
    LET value == Fmod(self.value, 2 * PI)
    IN  Angle(IF value > PI THEN value - 2 * PI
              ELSE IF value < -PI THEN value + 2 * PI
              ELSE value)

\* faulty variant: the constructor stores the measure as given
radians_raw(value) == Angle(value)

radians(value) == normalize(Angle(value))

degrees(value) == radians(to_radians(value))

as_radians(self) == self.value

\* faulty variant: the sign is kept
abs_keep(self) == Angle(self.value)

abs(self) == Angle(fabs(self.value))

\* faulty variant: + computes the difference
add_minus(self, rhs) == normalize(Angle(self.value - rhs.value))

add(self, rhs) == normalize(Angle(self.value + rhs.value))

\* faulty variant: the difference is not normalized
sub_raw(self, rhs) == Angle(self.value - rhs.value)

sub(self, rhs) == normalize(Angle(self.value - rhs.value))

\* faulty variant: the comparison is not strict
is_within_inclusive(self, other, difference) ==
    as_radians(abs(sub(self, other))) <= as_radians(difference)

is_within(self, other, difference) ==
    as_radians(abs(sub(self, other))) < as_radians(difference)

-----------------------------------------------------------------------------
(* The client *)

Regs == {"a", "b", "d"}

NoSrc == [unit |-> "none", v |-> 0]

FromDeg(v) == [unit |-> "deg", v |-> v]

FromRad(v) == [unit |-> "rad", v |-> v]

\* the degree measures v + 360 * k
Shifted(base) == {v + 360000 * k : v \in base, k \in (-MaxTurns)..MaxTurns}

\* measures handed to the constructors by the arithmetic client
ArithDegrees == Shifted({0, 5000, 90000, -90000, 180000, -180000})

ArithRadians == {RADIANS_90_DEGREES, PI, -PI, PI + 1, -PI - 1, 3 * PI, -3 * PI, 5 * PI}

\* angles constructed by the comparing client
AngleDegrees == Shifted({0, 2500, 90000, 179000, -179000, 180000, -180000})

AngleRadians == {RADIANS_90_DEGREES, PI, -PI, 1}

\* tolerances constructed by the comparing client
ToleranceDegrees == Shifted({0, 1, 2500, 40000, -90000, 180000})

ToleranceRadians == {1, -1}

Init ==
    /\ reg = [r \in Regs |-> radians(0)]
    /\ src = [r \in Regs |-> FromRad(0)]
    /\ ops = <<>>
    /\ chain = TRUE
    /\ n = 0
    /\ last = [op |-> "radians", reg |-> "a", raw |-> 0]
    /\ called = FALSE
    /\ within = FALSE

\* what a construction of register r does to the record of reg.a's history
Rebuilt(r) ==
    /\ called' = FALSE
    /\ within' = FALSE
    /\ IF r = "a"
       THEN /\ ops' = <<>>
            /\ chain' = TRUE
            /\ n' = 0
       ELSE IF r = "b" /\ n > 0
       THEN /\ ops' = <<>>
            /\ chain' = FALSE
            /\ n' = n
       ELSE UNCHANGED <<ops, chain, n>>

\* reg.r = Angle::radians(v)
Radians(r, v) ==
    /\ reg' = [reg EXCEPT ![r] = radians(v)]
    /\ src' = [src EXCEPT ![r] = FromRad(v),
                          !["a"] = IF r = "a" THEN FromRad(v)
                                   ELSE IF r = "b" /\ n > 0 THEN NoSrc ELSE @]
    /\ last' = [op |-> "radians", reg |-> r, raw |-> v]
    /\ Rebuilt(r)

\* reg.r = Angle::degrees(v)
Degrees(r, v) ==
    /\ reg' = [reg EXCEPT ![r] = degrees(v)]
    /\ src' = [src EXCEPT ![r] = FromDeg(v),
                          !["a"] = IF r = "a" THEN FromDeg(v)
                                   ELSE IF r = "b" /\ n > 0 THEN NoSrc ELSE @]
    /\ last' = [op |-> "degrees", reg |-> r, raw |-> to_radians(v)]
    /\ Rebuilt(r)

\* reg.a = reg.a + reg.b
Add ==
    /\ n < MaxOps
    /\ reg' = [reg EXCEPT !["a"] = add(reg["a"], reg["b"])]
    /\ last' = [op |-> "add", reg |-> "a", raw |-> reg["a"].value + reg["b"].value]
    /\ ops' = IF chain THEN Append(ops, "add") ELSE ops
    /\ n' = n + 1
    /\ called' = FALSE
    /\ within' = FALSE
    /\ UNCHANGED <<src, chain>>

\* reg.a = reg.a - reg.b
Sub ==
    /\ n < MaxOps
    /\ reg' = [reg EXCEPT !["a"] = sub(reg["a"], reg["b"])]
    /\ last' = [op |-> "sub", reg |-> "a", raw |-> reg["a"].value - reg["b"].value]
    /\ ops' = IF chain THEN Append(ops, "sub") ELSE ops
    /\ n' = n + 1
    /\ called' = FALSE
    /\ within' = FALSE
    /\ UNCHANGED <<src, chain>>

\* reg.a = reg.a.abs()
Abs ==
    /\ n < MaxOps
    /\ reg' = [reg EXCEPT !["a"] = abs(reg["a"])]
    /\ last' = [op |-> "abs", reg |-> "a", raw |-> reg["a"].value]
    /\ src' = [src EXCEPT !["a"] = NoSrc]
    /\ ops' = <<>>
    /\ chain' = FALSE
    /\ n' = n + 1
    /\ called' = FALSE
    /\ within' = FALSE

\* within = reg.a.is_within(&reg.b, reg.d)
IsWithin ==
    /\ ~called
    /\ within' = is_within(reg["a"], reg["b"], reg["d"])
    /\ called' = TRUE
    /\ last' = [op |-> "is_within", reg |-> "a", raw |-> reg["a"].value - reg["b"].value]
    /\ UNCHANGED <<reg, src, ops, chain, n>>

\* the arithmetic client: constructs reg.a and reg.b, chains +, - and abs on reg.a
Next ==
    \/ \E r \in {"a", "b"}, v \in ArithRadians : Radians(r, v)
    \/ \E r \in {"a", "b"}, v \in ArithDegrees : Degrees(r, v)
    \/ Add
    \/ Sub
    \/ Abs

Spec == Init /\ [][Next]_vars

\* the comparing client: constructs the two angles and the tolerance, then compares
NextWithin ==
    \/ \E r \in {"a", "b"}, v \in AngleRadians : Radians(r, v)
    \/ \E r \in {"a", "b"}, v \in AngleDegrees : Degrees(r, v)
    \/ \E v \in ToleranceRadians : Radians("d", v)
    \/ \E v \in ToleranceDegrees : Degrees("d", v)
    \/ IsWithin

SpecWithin == Init /\ [][NextWithin]_vars

-----------------------------------------------------------------------------
TypeOK ==
    /\ \A r \in Regs : reg[r].value \in Int
    /\ n \in 0..MaxOps
    /\ Len(ops) <= n
    /\ called \in BOOLEAN
    /\ within \in BOOLEAN

-----------------------------------------------------------------------------
(* Properties *)

A == reg["a"]

B == reg["b"]

D == reg["d"]

\* the operations that end in normalize and store their result in a register
Normalizing == last.op \in {"radians", "degrees", "add", "sub"}

\* the remainder normalize computes first
Remainder == Fmod(last.raw, 2 * PI)

\* the distance between two measures the short way around the circle
ShortestSeparation(x, y) ==
    LET t == (x - y) % (2 * PI)
    IN  IF t <= PI THEN t ELSE 2 * PI - t

C3_ShortestPath ==
    called =>
        /\ within = (ShortestSeparation(A.value, B.value) < D.value)
        /\ abs(sub(A, B)).value = ShortestSeparation(A.value, B.value)
        /\ abs(sub(A, B)).value \in 0..PI

C3_Witness ==
    /\ called
    /\ src = [a |-> FromDeg(179000), b |-> FromDeg(-179000), d |-> FromDeg(2500)]
    /\ abs(sub(A, B)).value = to_radians(2000)
    /\ within

C6_HalfTurnChain ==
    ( /\ chain
      /\ Len(ops) >= 1
      /\ src["a"] = FromDeg(90000)
      /\ src["b"] = FromDeg(180000) ) =>
        is_within(A, degrees(IF Len(ops) % 2 = 1 THEN -90000 ELSE 90000), degrees(1))

C6_Witness ==
    /\ chain
    /\ ops = <<"sub", "sub", "sub">>
    /\ src["a"] = FromDeg(90000)
    /\ src["b"] = FromDeg(180000)
    /\ A.value = -FRAC_PI_2

\* C7: is_within is false whenever the tolerance stores zero or a negative
\* value, even for equal angles, and true for equal angles whenever the
\* tolerance stores a positive value.
C7_StrictTolerance ==
    called =>
        /\ D.value <= 0 => ~within
        /\ (D.value > 0 /\ A.value = B.value) => within

C7_Witness ==
    /\ called
    /\ D.value = 0
    /\ src["a"] = FromRad(RADIANS_90_DEGREES)
    /\ src["b"] = FromDeg(90000)
    /\ A.value = B.value
    /\ ~within

\* C8: abs stores the absolute value of the stored value, which lies in [0, PI]
\* and so in (-PI, PI]; abs of the result is the result again.
C8_AbsCanonical ==
    last.op = "abs" =>
        /\ A.value = fabs(last.raw)
        /\ A.value \in 0..PI
        /\ -PI < A.value
        /\ abs(A) = A

C8_Witness ==
    /\ last = [op |-> "abs", reg |-> "a", raw |-> -PI]
    /\ n >= 2
    /\ A.value = PI

OddHalfTurns(t) == Fmod(t, 360000) \in {180000, -180000}

C10_Symmetric == called => within = is_within(B, A, D)

C10_Witness ==
    /\ called
    /\ A.value = -PI
    /\ B.value = PI
    /\ src["d"] = FromDeg(2500)
    /\ within

====
